---- MODULE Spec2Model ----
(***************************************************************************)
(* Huffman compressor (sphynx/huffman): bit-level reader and writer        *)
(* (src/bits.rs) and the compress / extract pipeline (src/main.rs).        *)
(*                                                                         *)
(* Three specifications share the variables:                               *)
(*   Spec      compress(data) step by step, then extract of the output or  *)
(*             of a byte-prefix of it;                                     *)
(*   SpecTrie  write_trie / read_trie on an arbitrary full binary tree;    *)
(*   SpecBits  arbitrary calls on a BitWriter, dump, then arbitrary calls  *)
(*             on a BitReader over the dumped buffer.                      *)
(*                                                                         *)
(* Conventions: bytes are 0..255; Rust slices are 0-based and TLA+         *)
(* sequences 1-based, so data[i] of the source is data[i + 1] here; an     *)
(* Option<T> is a record with a field `some`; a u32 that is read from a    *)
(* stream is carried as its four big-endian bytes, since values from 2^31  *)
(* on are not representable as model integers, and is turned into a number *)
(* where the source uses it as one.  A panic (expect / unwrap on None) is  *)
(* the outcome "panic" of the operation.                                   *)
(***************************************************************************)
EXTENDS Integers, Sequences, FiniteSets

\* ------------------------------------------------------------------ bounds
\* Longest input of compress.
MaxLen == 4
\* Number of distinct byte values the inputs are drawn from.
NumSyms == 3
\* Deepest tree of SpecTrie.
TrieDepth == 2
\* Number of reader/writer calls in a behaviour of SpecBits.
MaxCalls == 4

\* The byte values the inputs are drawn from: 0, 85, 170, 255, 84, ...
ByteOf(i) == ((i - 1) * 85) % 256
Alphabet == {ByteOf(i) : i \in 1..NumSyms}
Inputs == UNION {[1..n -> Alphabet] : n \in 0..MaxLen}

\* Arguments of the calls of SpecBits.
BitCounts == {0, 3, 8}
BitValues == {0, 5, 255}
U32Values == {16909060, 2147483647}

VARIABLES
    pc,          \* position in compress / extract, or phase of SpecTrie / SpecBits
    data,        \* the input of compress
    freqs,       \* freq_table(data)
    heap,        \* the BinaryHeap of build_trie, as the set of its nodes
    merges,      \* iterations of the merge loop so far
    popped,      \* the two nodes popped by the last iteration
    trie,        \* the trie of compress
    code,        \* the code table
    writer,      \* the BitWriter
    compressed,  \* the dumped buffer
    reader,      \* the BitReader
    rtrie,       \* the trie read back by read_trie
    result,      \* outcome of extract
    written,     \* SpecBits: the bits written so far, in order
    lastRead,    \* SpecBits: the last reader call and what it returned
    calls        \* SpecBits: number of calls so far

vars == <<pc, data, freqs, heap, merges, popped, trie, code, writer,
          compressed, reader, rtrie, result, written, lastRead, calls>>

\* ------------------------------------------------------------ bit helpers
\* (byte >> k) & 1
BitOf(byte, k) == (byte \div (2 ^ k)) % 2
\* byte | (1 << k)
OrBit(byte, k) == IF BitOf(byte, k) = 1 THEN byte ELSE byte + 2 ^ k
\* byte & !(1 << k)
AndNotBit(byte, k) == IF BitOf(byte, k) = 1 THEN byte - 2 ^ k ELSE byte

\* ------------------------------------------------------------- BitWriter
BitWriter_new == [buf |-> <<>>, ix |-> 0]

\* Always TRUE.  TLC evaluates the argument of an operator only when it is
\* used; a loop that tests Evaluated(w) evaluates the writer it was handed
\* before it goes on, so that the evaluation depth does not grow with the
\* number of bits written.
Evaluated(w) == w.ix >= 0

writer_byte_ix(w) == w.ix \div 8

writer_bit_ix_lsb(w) == w.ix % 8
writer_bit_ix(w) == 7 - (w.ix % 8)

is_full(w) == w.ix >= Len(w.buf) * 8

write_bit(w, bit) ==
    LET buf1 == IF is_full(w) THEN Append(w.buf, 0) ELSE w.buf
        byte_ix == writer_byte_ix(w)
    IN  [buf |-> [buf1 EXCEPT ![byte_ix + 1] =
                     IF bit THEN OrBit(@, writer_bit_ix(w))
                            ELSE AndNotBit(@, writer_bit_ix(w))],
         ix  |-> w.ix + 1]

\* the loop of write_bits with `left` offsets still to go: left-1, ..., 0
RECURSIVE write_bits_loop(_, _, _)
write_bits_loop(w, left, byte) ==
    IF left = 0 \/ ~Evaluated(w) THEN w
    ELSE write_bits_loop(write_bit(w, BitOf(byte, left - 1) = 1), left - 1, byte)

\* the same loop without .rev(): offsets done, done+1, ..., num_of_bits-1
RECURSIVE write_bits_loop_fwd(_, _, _, _)
write_bits_loop_fwd(w, done, num_of_bits, byte) ==
    IF done = num_of_bits \/ ~Evaluated(w) THEN w
    ELSE write_bits_loop_fwd(write_bit(w, BitOf(byte, done) = 1), done + 1, num_of_bits, byte)

write_bits_not_reversed(w, num_of_bits, byte) == write_bits_loop_fwd(w, 0, num_of_bits, byte)
write_bits(w, num_of_bits, byte) == write_bits_loop(w, num_of_bits, byte)

to_le_bytes(x) ==
    <<x % 256, (x \div 256) % 256, (x \div 65536) % 256, (x \div 16777216) % 256>>
to_be_bytes(x) ==
    <<(x \div 16777216) % 256, (x \div 65536) % 256, (x \div 256) % 256, x % 256>>

write_u32_be(w, x) ==
    LET b == to_be_bytes(x)
    IN  write_bits(write_bits(write_bits(write_bits(w, 8, b[1]), 8, b[2]), 8, b[3]), 8, b[4])

dump(w) == w.buf

\* ------------------------------------------------------------- BitReader
BitReader_new(d) == [data |-> d, ix |-> 0]

reader_byte_ix(r) == r.ix \div 8
reader_bit_ix(r) == 7 - (r.ix % 8)

read_bit(r) ==
    IF reader_byte_ix(r) < Len(r.data)
    THEN [some |-> TRUE,
          val  |-> BitOf(r.data[reader_byte_ix(r) + 1], reader_bit_ix(r)) > 0,
          rd   |-> [r EXCEPT !.ix = @ + 1]]
    ELSE [some |-> FALSE, val |-> FALSE, rd |-> r]

\* the loop of read_bits with `left` iterations to go and `res` so far (a u8)
RECURSIVE read_bits_loop(_, _, _)
read_bits_loop(r, left, res) ==
    IF left = 0 THEN [some |-> TRUE, val |-> res, rd |-> r]
    ELSE LET b == read_bit(r)
         IN  IF b.some
             THEN read_bits_loop(b.rd, left - 1,
                                 ((res * 2) % 256) + (IF b.val THEN 1 ELSE 0))
             ELSE [some |-> FALSE, val |-> 0, rd |-> b.rd]

read_bits(r, n) == read_bits_loop(r, n, 0)

\* the loop of read_u32_be from byte i on, `bytes` read so far
RECURSIVE read_u32_loop(_, _, _)
read_u32_loop(r, i, bytes) ==
    IF i = 4 THEN [some |-> TRUE, val |-> bytes, rd |-> r]
    ELSE LET b == read_bits(r, 8)
         IN  IF b.some
             THEN read_u32_loop(b.rd, i + 1, Append(bytes, b.val))
             ELSE [some |-> FALSE, val |-> <<>>, rd |-> b.rd]

\* the value is the array `bytes` of the source, before u32::from_be_bytes
read_u32_be(r) == read_u32_loop(r, 0, <<>>)

\* u32::from_be_bytes
from_be_bytes(b) == (b[1] * 16777216) + (b[2] * 65536) + (b[3] * 256) + b[4]

\* `as u32` of a usize
as_u32(n) == (((n \div 65536) % 65536) * 65536) + (n % 65536)

\* ------------------------------------------------------------------ Node
leaf(byte, freq) == [byte |-> byte, freq |-> freq, children |-> <<>>]

merge_left_twice(l, r) == [byte |-> 0, freq |-> l.freq + r.freq, children |-> <<l, l>>]
merge(l, r) == [byte |-> 0, freq |-> l.freq + r.freq, children |-> <<l, r>>]

\* children is None
IsLeaf(n) == n.children = <<>>

\* usize::cmp
IntCmp(a, b) == IF a < b THEN "Less" ELSE IF a > b THEN "Greater" ELSE "Equal"
\* Ordering::reverse
Reverse(o) == IF o = "Less" THEN "Greater" ELSE IF o = "Greater" THEN "Less" ELSE "Equal"

\* impl Ord for Node
node_cmp_unreversed(a, b) == IntCmp(a.freq, b.freq)
node_cmp(a, b) == Reverse(IntCmp(a.freq, b.freq))

\* BinaryHeap::pop returns a greatest node of the heap under Ord; which one
\* among equal nodes is the standard library's business: any of them.
HeapTop(h) == {n \in h : \A m \in h : node_cmp(m, n) # "Greater"}

\* ------------------------------------------------------------ freq_table
RECURSIVE freq_table_loop(_, _, _)
freq_table_loop(d, i, counter) ==
    IF i > Len(d) THEN counter
    ELSE freq_table_loop(d, i + 1, [counter EXCEPT ![d[i]] = @ + 1])

freq_table(d) == freq_table_loop(d, 1, [b \in 0..255 |-> 0])

\* ------------------------------------------------- write_trie, read_trie
RECURSIVE write_trie(_, _)
write_trie(w, node) ==
    IF ~Evaluated(w) THEN w
    ELSE IF IsLeaf(node)
    THEN write_bits(write_bit(w, TRUE), 8, node.byte)
    ELSE write_trie(write_trie(write_bit(w, FALSE), node.children[1]), node.children[2])

Panic(r, msg) == [ok |-> FALSE, node |-> leaf(0, 0), rd |-> r, msg |-> msg]

RECURSIVE read_trie_swapped(_)
read_trie_swapped(r) ==
    LET t == read_bit(r)
    IN  IF ~t.some THEN Panic(t.rd, "read_trie: can't decode node type")
        ELSE IF t.val
        THEN LET b == read_bits(t.rd, 8)
             IN  IF ~b.some THEN Panic(b.rd, "read_trie: can't read data from node")
                 ELSE [ok |-> TRUE, node |-> leaf(b.val, 0), rd |-> b.rd, msg |-> ""]
        ELSE LET left == read_trie_swapped(t.rd)
             IN  IF ~left.ok THEN left
                 ELSE LET right == read_trie_swapped(left.rd)
                      IN  IF ~right.ok THEN right
                          ELSE [ok |-> TRUE, node |-> merge(right.node, left.node),
                                rd |-> right.rd, msg |-> ""]
RECURSIVE read_trie(_)
read_trie(r) ==
    LET t == read_bit(r)
    IN  IF ~t.some THEN Panic(t.rd, "read_trie: can't decode node type")
        ELSE IF t.val
        THEN LET b == read_bits(t.rd, 8)
             IN  IF ~b.some THEN Panic(b.rd, "read_trie: can't read data from node")
                 ELSE [ok |-> TRUE, node |-> leaf(b.val, 0), rd |-> b.rd, msg |-> ""]
        ELSE LET left == read_trie(t.rd)
             IN  IF ~left.ok THEN left
                 ELSE LET right == read_trie(left.rd)
                      IN  IF ~right.ok THEN right
                          ELSE [ok |-> TRUE, node |-> merge(left.node, right.node),
                                rd |-> right.rd, msg |-> ""]

\* ------------------------------------------------------------ build_code
None == [some |-> FALSE, path |-> <<>>]
Some(p) == [some |-> TRUE, path |-> p]

\* build_code::go, returning the table it updates
RECURSIVE code_go_leaf_pushes(_, _, _)
code_go_leaf_pushes(t, path, table) ==
    IF IsLeaf(t)
    THEN [table EXCEPT ![t.byte] = Some(Append(path, 0))]
    ELSE code_go_leaf_pushes(t.children[2], Append(path, 1),
                 code_go_leaf_pushes(t.children[1], Append(path, 0), table))
RECURSIVE code_go_same_bit(_, _, _)
code_go_same_bit(t, path, table) ==
    IF IsLeaf(t)
    THEN [table EXCEPT ![t.byte] = Some(path)]
    ELSE code_go_same_bit(t.children[2], Append(path, 0),
                 code_go_same_bit(t.children[1], Append(path, 0), table))
RECURSIVE code_go(_, _, _)
code_go(t, path, table) ==
    IF IsLeaf(t)
    THEN [table EXCEPT ![t.byte] = Some(path)]
    ELSE code_go(t.children[2], Append(path, 1),
                 code_go(t.children[1], Append(path, 0), table))

build_code(t) == code_go(t, <<>>, [b \in 0..255 |-> None])

\* ---------------------------------------------------- write_encoded_data
\* the inner loop: the bits of one code entry, from position j on
RECURSIVE write_code_entry(_, _, _)
write_code_entry(w, entry, j) ==
    IF j > Len(entry) \/ ~Evaluated(w) THEN w
    ELSE write_code_entry(write_bit(w, entry[j] = 1), entry, j + 1)

\* the outer loop, from data[i] on; unwrap of a missing entry panics
RECURSIVE write_codes(_, _, _, _)
write_codes(w, d, table, i) ==
    IF i > Len(d) \/ ~Evaluated(w) THEN [ok |-> TRUE, w |-> w]
    ELSE IF ~table[d[i]].some THEN [ok |-> FALSE, w |-> w]
    ELSE write_codes(write_code_entry(w, table[d[i]].path, 1), d, table, i + 1)

write_encoded_data_no_length(w, d, table) == write_codes(w, d, table, 1)
write_encoded_data(w, d, table) ==
    write_codes(write_u32_be(w, as_u32(Len(d))), d, table, 1)

\* ----------------------------------------------------- read_decoded_data
\* read_decoded_data::go
RECURSIVE decode_go_lenient(_, _)
decode_go_lenient(r, node) ==
    IF IsLeaf(node) THEN [ok |-> TRUE, byte |-> node.byte, rd |-> r]
    ELSE LET b == read_bit(r)
         IN  IF ~b.some THEN [ok |-> TRUE, byte |-> 0, rd |-> b.rd]
             ELSE IF b.val THEN decode_go_lenient(b.rd, node.children[2])
                           ELSE decode_go_lenient(b.rd, node.children[1])
RECURSIVE decode_go(_, _)
decode_go(r, node) ==
    IF IsLeaf(node) THEN [ok |-> TRUE, byte |-> node.byte, rd |-> r]
    ELSE LET b == read_bit(r)
         IN  IF ~b.some THEN [ok |-> FALSE, byte |-> 0, rd |-> b.rd]
             ELSE IF b.val THEN decode_go(b.rd, node.children[2])
                           ELSE decode_go(b.rd, node.children[1])

\* (0..size).map(|_| go(reader, &trie)).collect(), `left` symbols to go
RECURSIVE decode_loop(_, _, _, _)
decode_loop(r, t, left, out) ==
    IF left = 0 THEN [ok |-> TRUE, bytes |-> out, rd |-> r, msg |-> ""]
    ELSE LET g == decode_go(r, t)
         IN  IF ~g.ok
             THEN [ok |-> FALSE, bytes |-> <<>>, rd |-> g.rd,
                   msg |-> "read_decoded_data: unexpected end of data"]
             ELSE decode_loop(g.rd, t, left - 1, Append(out, g.byte))

read_decoded_data(r, t) ==
    LET size == read_u32_be(r)
    IN  IF ~size.some
        THEN [ok |-> FALSE, bytes |-> <<>>, rd |-> size.rd,
              msg |-> "decode_data: can't read size of data"]
        ELSE decode_loop(size.rd, t, from_be_bytes(size.val), <<>>)

\* --------------------------------------------------------------- extract
\* the reader is returned as well, as it is when extract returns or panics
extract(d) ==
    LET t == read_trie(BitReader_new(d))
    IN  IF ~t.ok
        THEN [ok |-> FALSE, bytes |-> <<>>, rd |-> t.rd, msg |-> t.msg, trie |-> t.node]
        ELSE LET r == read_decoded_data(t.rd, t.node)
             IN  [ok |-> r.ok, bytes |-> r.bytes, rd |-> r.rd, msg |-> r.msg,
                  trie |-> t.node]

\* ======================================================== initial values
NoResult == [status |-> "none", bytes |-> <<>>, msg |-> ""]
NoRead == [op |-> "none", n |-> 0, from |-> 0, some |-> FALSE, val |-> 0]

Idle ==
    /\ data = <<>>
    /\ freqs = [b \in 0..255 |-> 0]
    /\ heap = {}
    /\ merges = 0
    /\ popped = <<>>
    /\ trie = leaf(0, 0)
    /\ code = [b \in 0..255 |-> None]
    /\ writer = BitWriter_new
    /\ compressed = <<>>
    /\ reader = BitReader_new(<<>>)
    /\ rtrie = leaf(0, 0)
    /\ result = NoResult
    /\ written = <<>>
    /\ lastRead = NoRead
    /\ calls = 0

\* ================================================== Spec: compress, extract
Init ==
    /\ pc = "freq_table"
    /\ data \in Inputs
    /\ freqs = [b \in 0..255 |-> 0]
    /\ heap = {}
    /\ merges = 0
    /\ popped = <<>>
    /\ trie = leaf(0, 0)
    /\ code = [b \in 0..255 |-> None]
    /\ writer = BitWriter_new
    /\ compressed = <<>>
    /\ reader = BitReader_new(<<>>)
    /\ rtrie = leaf(0, 0)
    /\ result = NoResult
    /\ written = <<>>
    /\ lastRead = NoRead
    /\ calls = 0

\* compress: let freqs = freq_table(&data)
FreqTable ==
    /\ pc = "freq_table"
    /\ freqs' = freq_table(data)
    /\ pc' = "push"
    /\ UNCHANGED <<data, heap, merges, popped, trie, code, writer, compressed,
                   reader, rtrie, result, written, lastRead, calls>>

\* build_trie: one leaf per byte value with a non-zero count
PushLeaves ==
    /\ pc = "push"
    /\ heap' = {leaf(b, freqs[b]) : b \in {c \in 0..255 : freqs[c] > 0}}
    /\ pc' = "merge"
    /\ UNCHANGED <<data, freqs, merges, popped, trie, code, writer, compressed,
                   reader, rtrie, result, written, lastRead, calls>>

\* build_trie: one iteration of `while heap.len() > 1`
MergeStep ==
    /\ pc = "merge"
    /\ Cardinality(heap) > 1
    /\ \E l \in HeapTop(heap) :
         \E r \in HeapTop(heap \ {l}) :
            /\ heap' = (heap \ {l, r}) \cup {merge(l, r)}
            /\ popped' = <<l, r>>
    /\ merges' = merges + 1
    /\ UNCHANGED <<pc, data, freqs, trie, code, writer, compressed,
                   reader, rtrie, result, written, lastRead, calls>>

\* build_trie: heap.pop().unwrap_or(Node::leaf(0, 0))
FinishTrie ==
    /\ pc = "merge"
    /\ Cardinality(heap) <= 1
    /\ trie' = IF heap = {} THEN leaf(0, 0) ELSE CHOOSE n \in heap : TRUE
    /\ heap' = {}
    /\ pc' = "build_code"
    /\ UNCHANGED <<data, freqs, merges, popped, code, writer, compressed,
                   reader, rtrie, result, written, lastRead, calls>>

\* compress: let code = build_code(&trie); let mut writer = BitWriter::new()
BuildCode ==
    /\ pc = "build_code"
    /\ code' = build_code(trie)
    /\ writer' = BitWriter_new
    /\ pc' = "write_trie"
    /\ UNCHANGED <<data, freqs, heap, merges, popped, trie, compressed,
                   reader, rtrie, result, written, lastRead, calls>>

\* compress: write_trie(&mut writer, &trie)
WriteTrie ==
    /\ pc = "write_trie"
    /\ writer' = write_trie(writer, trie)
    /\ pc' = "write_encoded_data"
    /\ UNCHANGED <<data, freqs, heap, merges, popped, trie, code, compressed,
                   reader, rtrie, result, written, lastRead, calls>>

\* compress: write_encoded_data(&mut writer, data, code)
WriteEncodedData ==
    /\ pc = "write_encoded_data"
    /\ LET res == write_encoded_data(writer, data, code)
       IN  /\ writer' = res.w
           /\ IF res.ok
              THEN pc' = "dump" /\ result' = result
              ELSE /\ pc' = "done"
                   /\ result' = [status |-> "panic", bytes |-> <<>>,
                                 msg |-> "called Option::unwrap() on a None value"]
    /\ UNCHANGED <<data, freqs, heap, merges, popped, trie, code, compressed,
                   reader, rtrie, written, lastRead, calls>>

\* compress: writer.dump()
Dump ==
    /\ pc = "dump"
    /\ compressed' = dump(writer)
    /\ pc' = "compressed"
    /\ UNCHANGED <<data, freqs, heap, merges, popped, trie, code, writer,
                   reader, rtrie, result, written, lastRead, calls>>

\* extract(data), on the first k bytes of the compressed buffer
Extract(k) ==
    /\ pc = "compressed"
    /\ LET res == extract(SubSeq(compressed, 1, k))
       IN  /\ reader' = res.rd
           /\ rtrie' = res.trie
           /\ result' = IF res.ok
                        THEN [status |-> "ok", bytes |-> res.bytes, msg |-> ""]
                        ELSE [status |-> "panic", bytes |-> <<>>, msg |-> res.msg]
    /\ pc' = "done"
    /\ UNCHANGED <<data, freqs, heap, merges, popped, trie, code, writer,
                   compressed, written, lastRead, calls>>

Next ==
    \/ FreqTable
    \/ PushLeaves
    \/ MergeStep
    \/ FinishTrie
    \/ BuildCode
    \/ WriteTrie
    \/ WriteEncodedData
    \/ Dump
    \/ \E k \in 0..Len(compressed) : Extract(k)

Spec == Init /\ [][Next]_vars

\* ============================================ SpecTrie: write_trie, read_trie
\* leaf byte values of the trees of SpecTrie
TrieBytes == {0, 170}
Leaves == {leaf(b, 1) : b \in TrieBytes}

\* the full binary trees of depth at most d with leaves from Leaves
RECURSIVE TriesUpTo(_)
TriesUpTo(d) ==
    IF d = 0 THEN Leaves
    ELSE LET S == TriesUpTo(d - 1) IN Leaves \cup {merge(t[1], t[2]) : t \in S \X S}

InitTrie ==
    /\ pc = "t_write"
    /\ trie \in TriesUpTo(TrieDepth)
    /\ data = <<>>
    /\ freqs = [b \in 0..255 |-> 0]
    /\ heap = {}
    /\ merges = 0
    /\ popped = <<>>
    /\ code = [b \in 0..255 |-> None]
    /\ writer = BitWriter_new
    /\ compressed = <<>>
    /\ reader = BitReader_new(<<>>)
    /\ rtrie = leaf(0, 0)
    /\ result = NoResult
    /\ written = <<>>
    /\ lastRead = NoRead
    /\ calls = 0

TrieWrite ==
    /\ pc = "t_write"
    /\ writer' = write_trie(writer, trie)
    /\ pc' = "t_dump"
    /\ UNCHANGED <<data, freqs, heap, merges, popped, trie, code, compressed,
                   reader, rtrie, result, written, lastRead, calls>>

TrieDump ==
    /\ pc = "t_dump"
    /\ compressed' = dump(writer)
    /\ reader' = BitReader_new(dump(writer))
    /\ pc' = "t_read"
    /\ UNCHANGED <<data, freqs, heap, merges, popped, trie, code, writer,
                   rtrie, result, written, lastRead, calls>>

TrieRead ==
    /\ pc = "t_read"
    /\ LET res == read_trie(reader)
       IN  /\ reader' = res.rd
           /\ rtrie' = res.node
           /\ result' = IF res.ok THEN [status |-> "ok", bytes |-> <<>>, msg |-> ""]
                        ELSE [status |-> "panic", bytes |-> <<>>, msg |-> res.msg]
    /\ pc' = "t_done"
    /\ UNCHANGED <<data, freqs, heap, merges, popped, trie, code, writer,
                   compressed, written, lastRead, calls>>

NextTrie == TrieWrite \/ TrieDump \/ TrieRead

SpecTrie == InitTrie /\ [][NextTrie]_vars

\* ================================ SpecBits: BitWriter calls, then BitReader calls
\* the low n bits of v, most significant first
BitsOf(n, v) == [j \in 1..n |-> BitOf(v, n - j)]

\* the 32 bits of x < 2^31, most significant first
U32Bits(x) == [j \in 1..32 |-> IF j = 1 THEN 0 ELSE BitOf(x, 32 - j)]

InitBits ==
    /\ pc = "b_write"
    /\ Idle

BitsUnchanged == UNCHANGED <<data, freqs, heap, merges, popped, trie, code, rtrie, result>>

BWriteBit(bit) ==
    /\ pc = "b_write"
    /\ calls < MaxCalls
    /\ writer' = write_bit(writer, bit)
    /\ written' = Append(written, IF bit THEN 1 ELSE 0)
    /\ calls' = calls + 1
    /\ BitsUnchanged
    /\ UNCHANGED <<pc, compressed, reader, lastRead>>

BWriteBits(n, v) ==
    /\ pc = "b_write"
    /\ calls < MaxCalls
    /\ writer' = write_bits(writer, n, v)
    /\ written' = written \o BitsOf(n, v)
    /\ calls' = calls + 1
    /\ BitsUnchanged
    /\ UNCHANGED <<pc, compressed, reader, lastRead>>

BWriteU32(x) ==
    /\ pc = "b_write"
    /\ calls < MaxCalls
    /\ writer' = write_u32_be(writer, x)
    /\ written' = written \o U32Bits(x)
    /\ calls' = calls + 1
    /\ BitsUnchanged
    /\ UNCHANGED <<pc, compressed, reader, lastRead>>

BDump ==
    /\ pc = "b_write"
    /\ compressed' = dump(writer)
    /\ reader' = BitReader_new(dump(writer))
    /\ pc' = "b_read"
    /\ BitsUnchanged
    /\ UNCHANGED <<writer, written, lastRead, calls>>

BReadBit ==
    /\ pc = "b_read"
    /\ calls < MaxCalls
    /\ LET res == read_bit(reader)
       IN  /\ reader' = res.rd
           /\ lastRead' = [op |-> "read_bit", n |-> 1, from |-> reader.ix,
                           some |-> res.some, val |-> IF res.val THEN 1 ELSE 0]
    /\ calls' = calls + 1
    /\ BitsUnchanged
    /\ UNCHANGED <<pc, writer, compressed, written>>

BReadBits(n) ==
    /\ pc = "b_read"
    /\ calls < MaxCalls
    /\ LET res == read_bits(reader, n)
       IN  /\ reader' = res.rd
           /\ lastRead' = [op |-> "read_bits", n |-> n, from |-> reader.ix,
                           some |-> res.some, val |-> res.val]
    /\ calls' = calls + 1
    /\ BitsUnchanged
    /\ UNCHANGED <<pc, writer, compressed, written>>

BReadU32 ==
    /\ pc = "b_read"
    /\ calls < MaxCalls
    /\ LET res == read_u32_be(reader)
       IN  /\ reader' = res.rd
           /\ lastRead' = [op |-> "read_u32_be", n |-> 32, from |-> reader.ix,
                           some |-> res.some, val |-> res.val]
    /\ calls' = calls + 1
    /\ BitsUnchanged
    /\ UNCHANGED <<pc, writer, compressed, written>>

NextBits ==
    \/ \E bit \in BOOLEAN : BWriteBit(bit)
    \/ \E n \in BitCounts, v \in BitValues : BWriteBits(n, v)
    \/ \E x \in U32Values : BWriteU32(x)
    \/ BDump
    \/ BReadBit
    \/ \E n \in BitCounts : BReadBits(n)
    \/ BReadU32

SpecBits == InitBits /\ [][NextBits]_vars

\* ================================================================ claims
Range(s) == {s[i] : i \in 1..Len(s)}

\* bit i (0-based, in stream order) of a buffer
BufBit(buf, i) == BitOf(buf[(i \div 8) + 1], 7 - (i % 8))

CeilDiv8(m) == (m + 7) \div 8

\* build_trie / build_code has just returned
AfterBuildTrie == pc = "build_code"
AfterBuildCode == pc = "write_trie"

\* extract was given the whole output of compress / a strict byte-prefix of it
ExtractedWhole == pc = "done" /\ reader.data = compressed
ExtractedPrefix == pc = "done" /\ Len(reader.data) < Len(compressed)

RECURSIVE NumLeaves(_)
NumLeaves(t) ==
    IF IsLeaf(t) THEN 1 ELSE NumLeaves(t.children[1]) + NumLeaves(t.children[2])

RECURSIVE NumInternal(_)
NumInternal(t) ==
    IF IsLeaf(t) THEN 0
    ELSE 1 + NumInternal(t.children[1]) + NumInternal(t.children[2])

RECURSIVE LeafBytes(_)
LeafBytes(t) ==
    IF IsLeaf(t) THEN {t.byte}
    ELSE LeafBytes(t.children[1]) \cup LeafBytes(t.children[2])

RECURSIVE FullBinary(_)
FullBinary(t) ==
    \/ Len(t.children) = 0
    \/ Len(t.children) = 2 /\ FullBinary(t.children[1]) /\ FullBinary(t.children[2])

\* same shape and same leaf byte values in the same positions
RECURSIVE SameShape(_, _)
SameShape(a, b) ==
    IF IsLeaf(a) THEN IsLeaf(b) /\ a.byte = b.byte
    ELSE /\ ~IsLeaf(b)
         /\ SameShape(a.children[1], b.children[1])
         /\ SameShape(a.children[2], b.children[2])

\* pre-order serialization: 1 and the byte per leaf, 0 per internal node
RECURSIVE TrieBits(_)
TrieBits(t) ==
    IF IsLeaf(t) THEN <<1>> \o BitsOf(8, t.byte)
    ELSE <<0>> \o TrieBits(t.children[1]) \o TrieBits(t.children[2])

\* the code bits of d[i], d[i+1], ... in order
RECURSIVE PayloadBits(_, _)
PayloadBits(d, i) ==
    IF i > Len(d) THEN <<>> ELSE code[d[i]].path \o PayloadBits(d, i + 1)

WireBits == TrieBits(trie) \o U32Bits(Len(data)) \o PayloadBits(data, 1)

IsPrefix(p, q) == Len(p) <= Len(q) /\ SubSeq(q, 1, Len(p)) = p

PrefixFree ==
    LET P == {b \in 0..255 : code[b].some}
    IN  \A a \in P : \A b \in P : a # b => ~IsPrefix(code[a].path, code[b].path)

Present == {b \in 0..255 : freqs[b] > 0}

\* C1: extract(compress(x)) returns exactly x, for every input x.
C1_RoundTrip ==
    ExtractedWhole => (result.status = "ok" /\ result.bytes = data)

C1_Witness ==
    /\ ExtractedWhole
    /\ Len(data) >= 3
    /\ Cardinality(Range(data)) >= 2
    /\ result.bytes = data

\* C2: no panic is reachable from extract, whatever buffer it is given.
C2_ExtractNeverPanics == result.status # "panic"

\* C3: extract of a strict byte-prefix of compress(x) signals failure and
\* returns no byte sequence.
C3_TruncatedFails ==
    ExtractedPrefix => (result.status = "panic" /\ result.bytes = <<>>)

C3_Witness ==
    /\ ExtractedPrefix
    /\ Len(data) >= 3
    /\ result.status = "panic"
    /\ result.msg = "read_decoded_data: unexpected end of data"

\* C4: the output of compress is the pre-order trie, the 32-bit big-endian
\* length, the code bits of each input byte in order, then zero bits up to
\* the byte boundary, in ceil(total bits / 8) bytes.
C4_WireFormat ==
    pc = "compressed" =>
        LET wire == WireBits
        IN  /\ Len(compressed) = CeilDiv8(Len(wire))
            /\ \A i \in 0..(8 * Len(compressed) - 1) :
                  BufBit(compressed, i) = IF i < Len(wire) THEN wire[i + 1] ELSE 0

C4_Witness ==
    /\ pc = "compressed"
    /\ Cardinality(Range(data)) = 3
    /\ Len(WireBits) % 8 # 0
    /\ Len(PayloadBits(data, 1)) >= 5

\* C5 as stated: the code table has an entry exactly for the byte values
\* that occur in x, and no code is a prefix of the code of another byte.
C5_EntriesExactlyOccurring ==
    AfterBuildCode =>
        /\ \A b \in 0..255 : code[b].some <=> b \in Range(data)
        /\ PrefixFree

\* C5 amended: the code table has an entry exactly for the byte values that
\* occur in x and, when x is empty, for the placeholder byte 0; no code is
\* a prefix of the code of another byte.
C5_EntriesOccurringOrPlaceholder ==
    AfterBuildCode =>
        /\ \A b \in 0..255 :
              code[b].some <=> (b \in Range(data) \/ (data = <<>> /\ b = 0))
        /\ PrefixFree

C5_Witness ==
    /\ AfterBuildCode
    /\ Cardinality(Range(data)) = 3
    /\ \A b \in Range(data) : code[b].some

\* C6: read_trie on the bits of write_trie(t) returns a trie of the same
\* shape with the same leaf bytes and consumes exactly the bits written,
\* 9 per leaf and 1 per internal node.
C6_TrieRoundTrip ==
    pc = "t_done" =>
        /\ result.status = "ok"
        /\ SameShape(trie, rtrie)
        /\ reader.ix = 9 * NumLeaves(trie) + NumInternal(trie)
        /\ reader.ix = writer.ix

C6_Witness ==
    /\ pc = "t_done"
    /\ NumLeaves(trie) >= 3
    /\ LeafBytes(trie) = TrieBytes
    /\ SameShape(trie, rtrie)
    /\ reader.ix < 8 * Len(compressed)

\* C7: for an input with at most one distinct byte value the trie is a
\* single leaf (leaf(0, 0) for the empty input), its code is empty, compress
\* writes nothing after the 32-bit length, and extract returns n copies of
\* the byte without reading a bit after the length.
SingleSymbol == Cardinality(Range(data)) <= 1

C7_SingleSymbol ==
    SingleSymbol =>
        /\ AfterBuildTrie =>
              trie = IF data = <<>> THEN leaf(0, 0) ELSE leaf(data[1], Len(data))
        /\ AfterBuildCode => code[trie.byte] = Some(<<>>)
        /\ pc = "dump" => writer.ix = 9 + 32
        /\ ExtractedWhole =>
              /\ result.status = "ok"
              /\ result.bytes = [i \in 1..Len(data) |-> trie.byte]
              /\ reader.ix = 9 + 32

C7_Witness ==
    /\ SingleSymbol
    /\ ExtractedWhole
    /\ Len(data) >= 3
    /\ result.bytes = data
    /\ reader.ix = 41

\* C8: each iteration of the merge loop removes two nodes whose frequencies
\* are at most those of every node left in the queue and reinserts their
\* merge, whose frequency is the sum; and a byte with a strictly higher
\* count never has a longer code than a byte with a strictly lower count.
C8_MergeLowestFirst ==
    /\ (pc = "merge" /\ merges > 0) =>
          LET l == popped[1]
              r == popped[2]
          IN  /\ merge(l, r) \in heap
              /\ \A n \in heap : n = merge(l, r) => n.freq = l.freq + r.freq
              /\ \A n \in heap \ {merge(l, r)} : l.freq <= n.freq /\ r.freq <= n.freq
    /\ AfterBuildCode =>
          LET P == Present
          IN  \A a \in P : \A b \in P :
                  freqs[a] > freqs[b] => Len(code[a].path) <= Len(code[b].path)

C8_Witness ==
    /\ AfterBuildCode
    /\ merges = 2
    /\ \E a \in Present : \E b \in Present :
          freqs[a] > freqs[b] /\ Len(code[a].path) < Len(code[b].path)

\* C9: with k >= 1 non-zero counts build_trie does exactly k-1 merges and
\* returns a full binary tree with k leaves, one per byte value with a
\* non-zero count, and k-1 internal nodes.
C9_TrieShape ==
    AfterBuildTrie =>
        LET P == Present
        IN  Cardinality(P) >= 1 =>
                /\ merges = Cardinality(P) - 1
                /\ FullBinary(trie)
                /\ LeafBytes(trie) = P
                /\ NumLeaves(trie) = Cardinality(P)
                /\ NumInternal(trie) = Cardinality(P) - 1

C9_Witness ==
    /\ pc = "build_code"
    /\ Cardinality(Present) = 3
    /\ merges = 2
    /\ NumLeaves(trie) = 3

\* C10: after writes of m bits in total the buffer has ceil(m/8) bytes, the
\* i-th bit written is at bit 7 - (i mod 8) of byte i div 8, the rest of the
\* last byte is 0; a reader over the dumped buffer returns the bits in the
\* same order and signals exhaustion only when all bits have been read.
ExpectedBit(i) == IF i < Len(written) THEN written[i + 1] ELSE 0

\* the number whose n binary digits are ExpectedBit(from) ... ExpectedBit(from+n-1)
RECURSIVE ExpectedValue(_, _)
ExpectedValue(from, n) ==
    IF n = 0 THEN 0 ELSE 2 * ExpectedValue(from, n - 1) + ExpectedBit(from + n - 1)

C10_BitOrder ==
    /\ pc \in {"b_write", "b_read"} =>
          /\ writer.ix = Len(written)
          /\ Len(writer.buf) = CeilDiv8(Len(written))
          /\ \A i \in 0..(8 * Len(writer.buf) - 1) : BufBit(writer.buf, i) = ExpectedBit(i)
    /\ (pc = "b_read" /\ lastRead.op # "none") =>
          /\ lastRead.some <=> lastRead.from + lastRead.n <= 8 * Len(compressed)
          /\ lastRead.some => reader.ix = lastRead.from + lastRead.n
          /\ ~lastRead.some => reader.ix = 8 * Len(compressed)
          /\ (lastRead.some /\ lastRead.op = "read_bit") =>
                lastRead.val = ExpectedBit(lastRead.from)
          /\ (lastRead.some /\ lastRead.op = "read_bits") =>
                lastRead.val = ExpectedValue(lastRead.from, lastRead.n)
          /\ (lastRead.some /\ lastRead.op = "read_u32_be") =>
                \A k \in 1..4 :
                    lastRead.val[k] = ExpectedValue(lastRead.from + 8 * (k - 1), 8)

C10_Witness ==
    /\ pc = "b_read"
    /\ lastRead.op = "read_u32_be"
    /\ lastRead.some
    /\ lastRead.from % 8 # 0
    /\ Len(written) % 8 # 0
    /\ \E k \in 1..4 : lastRead.val[k] \notin {0, 255}

====
